---- MODULE Spec2Model ----
(***************************************************************************)
(* Model of the /optimize handler of the Frontier Alpha ML engine          *)
(* (src/ml/main.py).  The handler builds a DataFrame from the request,     *)
(* estimates expected returns and a shrunk covariance, solves with         *)
(* PyPortfolioOpt's EfficientFrontier, cleans the weights, evaluates the   *)
(* portfolio and returns the response.                                     *)
(*                                                                         *)
(* Numbers.  Weights are integers in units of 10^-6 (1.0 = WeightUnit).    *)
(* Expected returns and risk-free rates are integers in percent (5 is the  *)
(* 0.05 of the request model).  A row of the return matrix is abstracted   *)
(* by the statistics the estimator derives from it: its annualised mean    *)
(* and its variance; the covariance matrices of the model are diagonal, so *)
(* S is kept as the sequence of its diagonal.                              *)
(*                                                                         *)
(* Library calls.  The statements of the handler are translated line by    *)
(* line.  The PyPortfolioOpt / pandas / pydantic calls they make are       *)
(* modelled by what those calls do for the inputs of the model; each such  *)
(* operator carries the name of the call and is mapped to the line of the  *)
(* handler that makes it.                                                  *)
(***************************************************************************)
EXTENDS Integers, Sequences, FiniteSets, TLC

\* ---------------------------------------------------------------- bounds
\* Largest number of rows / symbols of a request.
MaxAssets == 3
\* Number of optimize calls in flight in the concurrent specification.
NumCalls == 2

\* ------------------------------------------------------------- constants
\* OptimizeRequest.risk_free_rate default, 0.05, in percent.
RequestDefaultRf == 5
\* clean_weights(cutoff=1e-4, rounding=5): the defaults the handler's call uses.
rounding == 5
cutoff_exp == 4

WeightUnit == 10^6
cutoff == WeightUnit \div 10^cutoff_exp
RoundStep == WeightUnit \div 10^rounding
\* Common multiple of the variances of the model, to invert them exactly.
VarScale == 2 * 10^4

\* "No argument given" / None for an integer-valued field.
NoArg == 0 - 1

Calls == 1..NumCalls
Tickers == 1..MaxAssets

\* ------------------------------------------------------------ arithmetic
RECURSIVE SumSeq(_)
SumSeq(s) == IF s = <<>> THEN 0 ELSE Head(s) + SumSeq(Tail(s))

RECURSIVE SumOver(_, _)
SumOver(f, D) ==
    IF D = {} THEN 0
    ELSE LET x == CHOOSE y \in D : TRUE IN f[x] + SumOver(f, D \ {x})

Abs(x) == IF x < 0 THEN 0 - x ELSE x

\* round(WeightUnit * x / tot) for 0 <= x <= tot, tot > 0, in two steps of
\* 1000 so that no intermediate product leaves 32 bits.
Share(x, tot) ==
    LET q1 == (x * 1000) \div tot
        r1 == (x * 1000) % tot
        q2 == (2 * r1 * 1000 + tot) \div (2 * tot)
    IN  q1 * 1000 + q2

\* np.round(x, 5) on a weight in units of 10^-6: nearest multiple of
\* RoundStep, ties to the even multiple.
NpRound(x) ==
    LET a == Abs(x)
        lo == a \div RoundStep
        r == a % RoundStep
        m == IF 2 * r < RoundStep THEN lo
             ELSE IF 2 * r > RoundStep THEN lo + 1
             ELSE IF lo % 2 = 0 THEN lo ELSE lo + 1
    IN  IF x < 0 THEN 0 - (m * RoundStep) ELSE m * RoundStep


\* ------------------------------------------------- library calls, line 29
\* pd.DataFrame(request.returns, index=request.symbols): the index must have
\* one label per row, else pandas raises ValueError.  Labels may repeat.
DataFrameOk(returns, symbols) == Len(symbols) = Len(returns)

DataFrameT(returns, symbols) == [columns |-> symbols, data |-> returns]

\* ------------------------------------------- library calls, lines 32 - 33
\* expected_returns.mean_historical_return(df): one annualised mean per column.
mean_historical_return(frame) ==
    [index |-> frame.columns,
     values |-> [i \in 1..Len(frame.data) |-> frame.data[i].mu]]

\* risk_models.CovarianceShrinkage(df).ledoit_wolf(): the shrunk covariance,
\* here its diagonal.
ledoit_wolf(frame) ==
    [index |-> frame.columns,
     diag |-> [i \in 1..Len(frame.data) |-> frame.data[i].var]]

\* ------------------------------------------------- library calls, line 36
NoWeights == <<>>

EfficientFrontier(m, cov) ==
    [tickers |-> m.index, expected_returns |-> m.values, cov_matrix |-> cov.diag,
     weights |-> NoWeights, risk_free_rate |-> NoArg]

NoEf == [tickers |-> <<>>, expected_returns |-> <<>>, cov_matrix |-> <<>>,
         weights |-> NoWeights, risk_free_rate |-> NoArg]

\* ------------------------------------------- library calls, lines 39 - 43
\* Long-only optimum for a diagonal covariance: weights proportional to
\* score[i], over the assets of `among`; the assets of `among` with zero
\* variance, when there are any, share the whole portfolio equally.
Allocate(score, diag, among) ==
    LET n == Len(diag)
        Z == {i \in among : diag[i] = 0}
        tot == SumOver(score, among)
    IN  IF Z # {}
        THEN [i \in 1..n |-> IF i \in Z THEN Share(1, Cardinality(Z)) ELSE 0]
        ELSE [i \in 1..n |-> IF i \in among THEN Share(score[i], tot) ELSE 0]

InvVar(v) == IF v = 0 THEN 0 ELSE VarScale \div v

\* ef.min_volatility(): minimise w' S w, sum w = 1, 0 <= w <= 1.
min_volatility(e) ==
    LET n == Len(e.cov_matrix)
    IN  Allocate([i \in 1..n |-> InvVar(e.cov_matrix[i])], e.cov_matrix, 1..n)

\* ef.max_sharpe(risk_free_rate=rf) needs an asset whose expected return
\* exceeds rf, and raises ValueError otherwise.
max_sharpe_ok(e, rf) == \E i \in 1..Len(e.expected_returns) : e.expected_returns[i] > rf

\* ef.max_sharpe(risk_free_rate=rf): maximise (w'mu - rf) / sqrt(w' S w).
max_sharpe(e, rf) ==
    LET n == Len(e.cov_matrix)
        E == {i \in 1..n : e.expected_returns[i] > rf}
    IN  Allocate([i \in 1..n |-> (e.expected_returns[i] - rf) * InvVar(e.cov_matrix[i])],
                 e.cov_matrix, E)

\* ------------------------------------------------- library calls, line 45
\* BaseOptimizer._make_output_weights: OrderedDict(zip(tickers, weights)); a
\* repeated ticker keeps the weight of its last position.
make_output_weights(tickers, w) ==
    [t \in {tickers[i] : i \in 1..Len(tickers)} |->
        LET last == CHOOSE i \in 1..Len(tickers) :
                        /\ tickers[i] = t
                        /\ \A j \in 1..Len(tickers) : tickers[j] = t => j <= i
        IN  w[last]]

\* Mutant of clean_array: rounds to 4 decimals, one digit fewer than the
\* `rounding` the call uses.
clean_array_4dp(w) ==
    [i \in 1..Len(w) |->
        10 * RoundStep * (NpRound(IF Abs(w[i]) < cutoff THEN 0 ELSE w[i]) \div (10 * RoundStep))]

\* The array ef.clean_weights() builds from a copy of ef.weights: entries of
\* absolute value below the cutoff become 0, then np.round(., rounding).
clean_array(w) ==
    [i \in 1..Len(w) |-> NpRound(IF Abs(w[i]) < cutoff THEN 0 ELSE w[i])]

\* ef.clean_weights(): the cleaned copy as a ticker -> weight mapping;
\* ef.weights itself is left as the solver set it.
clean_weights(e) == make_output_weights(e.tickers, clean_array(e.weights))

\* ------------------------------------------------- library calls, line 46
\* w' S w for diagonal S, kept as its non-zero terms <<S[i], |w[i]|>> (the
\* squares do not fit 32 bits); the variance is zero iff no term is left.
PortfolioVariance(w, diag) ==
    [i \in 1..Len(w) |->
        IF diag[i] = 0 \/ w[i] = 0 THEN <<0, 0>> ELSE <<diag[i], Abs(w[i])>>]

IsZeroVariance(v) == \A i \in 1..Len(v) : v[i] = <<0, 0>>

\* (mu - rf) / sigma in floating point: a zero sigma gives inf, -inf or nan
\* (with a warning), never an exception.
SharpeRatio(ret, rf, variance) ==
    LET num == ret - rf * WeightUnit
    IN  [kind |-> IF ~IsZeroVariance(variance) THEN "finite"
                  ELSE IF num > 0 THEN "inf"
                  ELSE IF num < 0 THEN "-inf" ELSE "nan",
         num |-> num, variance |-> variance]

\* base_optimizer.portfolio_performance(weights, expected_returns, cov, rf):
\* (expected return, volatility, Sharpe ratio) of `w`.
performance_of(w, m, diag, rf) ==
    LET ret == SumSeq([i \in 1..Len(w) |-> w[i] * m[i]])
        variance == PortfolioVariance(w, diag)
    IN  <<ret, variance, SharpeRatio(ret, rf, variance)>>

\* The weight vector ef.portfolio_performance evaluates: ef.weights.
performance_weights(e) == e.weights

\* The risk-free rate ef.portfolio_performance uses: releases that remember
\* the rate of max_sharpe keep it (and warn) when another one is passed.
performance_rf(e, rf, reuse) ==
    IF reuse /\ e.risk_free_rate # NoArg THEN e.risk_free_rate ELSE rf

portfolio_performance(e, rf, reuse) ==
    performance_of(performance_weights(e), e.expected_returns, e.cov_matrix,
                   performance_rf(e, rf, reuse))

\* ----------------------------------------------------------------- inputs
\* What a row of the return matrix can be: (annualised mean, variance).
AssetProfiles ==
    {[mu |-> 6, var |-> 1], [mu |-> 3, var |-> 2],
     [mu |-> 6, var |-> VarScale], [mu |-> 3, var |-> 0]}

ReturnMatrices == UNION {[1..n -> AssetProfiles] : n \in 1..MaxAssets}

\* Symbol lists: the first n tickers, and the same with the last one
\* repeating the first.
SymbolLists ==
    {[i \in 1..n |-> i] : n \in 1..MaxAssets}
        \cup {[i \in 1..n |-> IF i = n THEN 1 ELSE i] : n \in 2..MaxAssets}

\* Objective strings a client may send; the last is not one the handler names.
Objectives == {"max_sharpe", "min_volatility", "efficient_risk"}

\* risk_free_rate of the payload: absent, or a rate in percent.
RfInputs == {NoArg, 0, 8}

\* JSON payloads posted to /optimize; `typed` is whether the payload matches
\* the field types of OptimizeRequest.
Payloads ==
    [symbols : SymbolLists, returns : ReturnMatrices, objective : Objectives,
     risk_free_rate : RfInputs, typed : {TRUE}]
        \cup [symbols : {<<1>>}, returns : {<<>>}, objective : {"max_sharpe"},
              risk_free_rate : {NoArg}, typed : {FALSE}]

\* The payloads of the concurrent specification: two assets, four requests
\* with four different outcomes.
ConcPayloads ==
    LET wide == <<[mu |-> 6, var |-> 1], [mu |-> 6, var |-> VarScale]>>
        even == <<[mu |-> 6, var |-> 1], [mu |-> 6, var |-> 1]>>
        P(r, o, rf) == [symbols |-> <<1, 2>>, returns |-> r, objective |-> o,
                        risk_free_rate |-> rf, typed |-> TRUE]
    IN  {P(wide, "min_volatility", NoArg), P(even, "max_sharpe", NoArg),
         P(wide, "efficient_risk", NoArg), P(even, "max_sharpe", 8)}

\* What the installed PyPortfolioOpt release fixes: the default risk_free_rate
\* of max_sharpe() in percent, and whether portfolio_performance keeps the
\* rate max_sharpe was called with.
LibReleases == [default_rf : {0, 2}, reuse_rf : BOOLEAN]

\* ------------------------------------------------------------------ state
VARIABLES
    lib,        \* the installed library release
    pc,         \* per call: the line of optimize about to run
    request,    \* per call: the parsed OptimizeRequest
    df,         \* per call: local df
    mu,         \* per call: local mu
    S,          \* per call: local S
    ef,         \* the EfficientFrontier objects, by slot
    cleaned,    \* per call: local cleaned
    perf,       \* per call: local perf
    response,   \* per call: the returned dict
    error,      \* per call: the exception that left the handler
    calls       \* per call: the library calls made, in order, with the rate passed

vars == <<lib, pc, request, df, mu, S, ef, cleaned, perf, response, error, calls>>

NoRequest == [symbols |-> <<>>, returns |-> <<>>, objective |-> "", risk_free_rate |-> NoArg]
NoFrame == [columns |-> <<>>, data |-> <<>>]
NoSeries == [index |-> <<>>, values |-> <<>>]
NoMatrix == [index |-> <<>>, diag |-> <<>>]
NoDict == <<>>
NoPerf == <<>>
NoResponse == [weights |-> NoDict, expected_return |-> NoArg, volatility |-> <<>>,
               sharpe_ratio |-> [kind |-> "none", num |-> 0, variance |-> <<>>]]
NoError == ""

\* Mutant of EfSlot: one module-level EfficientFrontier used by every call.
EfSlotShared(c) == 1

\* `ef` is a local of the handler: each call has its own object.
EfSlot(c) == c

Init ==
    /\ lib \in LibReleases
    /\ pc = [c \in Calls |-> "idle"]
    /\ request = [c \in Calls |-> NoRequest]
    /\ df = [c \in Calls |-> NoFrame]
    /\ mu = [c \in Calls |-> NoSeries]
    /\ S = [c \in Calls |-> NoMatrix]
    /\ ef = [c \in Calls |-> NoEf]
    /\ cleaned = [c \in Calls |-> NoDict]
    /\ perf = [c \in Calls |-> NoPerf]
    /\ response = [c \in Calls |-> NoResponse]
    /\ error = [c \in Calls |-> NoError]
    /\ calls = [c \in Calls |-> <<>>]

\* Mutant of Raise: the exception is swallowed and a best-effort response
\* with a defaulted weight vector is returned.
RaiseBestEffort(c, exc) ==
    /\ pc' = [pc EXCEPT ![c] = "returned"]
    /\ error' = error
    /\ response' = [response EXCEPT ![c] = [NoResponse EXCEPT !.weights = <<WeightUnit>>]]

\* An exception leaves the handler: optimize has no try/except, so the call
\* ends there and nothing is returned.
Raise(c, exc) ==
    /\ pc' = [pc EXCEPT ![c] = "raised"]
    /\ error' = [error EXCEPT ![c] = exc]
    /\ response' = response

Log(c, fn, rf) == calls' = [calls EXCEPT ![c] = Append(@, [fn |-> fn, rf |-> rf])]

\* OptimizeRequest(**payload): pydantic checks the field types and fills the
\* defaults; FastAPI answers 422 without entering the handler otherwise.
ParseRequest(p) ==
    [symbols |-> p.symbols, returns |-> p.returns, objective |-> p.objective,
     risk_free_rate |-> IF p.risk_free_rate = NoArg THEN RequestDefaultRf
                        ELSE p.risk_free_rate]

Accept(c, p) ==
    /\ pc[c] = "idle"
    /\ IF p.typed
       THEN /\ request' = [request EXCEPT ![c] = ParseRequest(p)]
            /\ pc' = [pc EXCEPT ![c] = "L29"]
            /\ UNCHANGED <<error, response>>
       ELSE /\ Raise(c, "RequestValidationError")
            /\ UNCHANGED request
    /\ UNCHANGED <<lib, df, mu, S, ef, cleaned, perf, calls>>

Receive(c) == pc[c] = "idle" /\ \E p \in Payloads : Accept(c, p)

ReceiveConc(c) == pc[c] = "idle" /\ \E p \in ConcPayloads : Accept(c, p)

\* Line 29: df = pd.DataFrame(request.returns, index=request.symbols).T
BuildFrame(c) ==
    /\ pc[c] = "L29"
    /\ IF DataFrameOk(request[c].returns, request[c].symbols)
       THEN /\ df' = [df EXCEPT ![c] = DataFrameT(request[c].returns, request[c].symbols)]
            /\ pc' = [pc EXCEPT ![c] = "L32"]
            /\ UNCHANGED <<error, response>>
       ELSE /\ Raise(c, "ValueError")
            /\ UNCHANGED df
    /\ UNCHANGED <<lib, request, mu, S, ef, cleaned, perf, calls>>

\* Lines 32 - 36: mu, S and ef = EfficientFrontier(mu, S).
Estimate(c) ==
    /\ pc[c] = "L32"
    /\ mu' = [mu EXCEPT ![c] = mean_historical_return(df[c])]
    /\ S' = [S EXCEPT ![c] = ledoit_wolf(df[c])]
    /\ ef' = [ef EXCEPT ![EfSlot(c)] = EfficientFrontier(mu'[c], S'[c])]
    /\ calls' = [calls EXCEPT ![c] =
                    @ \o <<[fn |-> "mean_historical_return", rf |-> NoArg],
                           [fn |-> "ledoit_wolf", rf |-> NoArg]>>]
    /\ pc' = [pc EXCEPT ![c] = "L38"]
    /\ UNCHANGED <<lib, request, df, cleaned, perf, response, error>>

\* The rate the handler passes to the solver: request.risk_free_rate on the
\* "max_sharpe" branch (line 39), none on the else branch (line 43).
SolverRfArg(req) == IF req.objective = "max_sharpe" THEN req.risk_free_rate ELSE NoArg

\* The rate a library call works with: the one passed, else the release's default.
EffectiveRf(passed) == IF passed = NoArg THEN lib.default_rf ELSE passed

\* Lines 38 - 43: the objective selects the solver call.
Solve(c) ==
    /\ pc[c] = "L38"
    /\ LET e == ef[EfSlot(c)]
           passed == SolverRfArg(request[c])
           rf == EffectiveRf(passed)
       IN  IF request[c].objective = "min_volatility"
           THEN /\ ef' = [ef EXCEPT ![EfSlot(c)].weights = min_volatility(e)]
                /\ Log(c, "min_volatility", NoArg)
                /\ pc' = [pc EXCEPT ![c] = "L45"]
                /\ UNCHANGED <<error, response>>
           ELSE /\ Log(c, "max_sharpe", passed)
                /\ IF max_sharpe_ok(e, rf)
                   THEN /\ ef' = [ef EXCEPT ![EfSlot(c)].weights = max_sharpe(e, rf),
                                            ![EfSlot(c)].risk_free_rate = rf]
                        /\ pc' = [pc EXCEPT ![c] = "L45"]
                        /\ UNCHANGED <<error, response>>
                   ELSE /\ Raise(c, "ValueError")
                        /\ UNCHANGED ef
    /\ UNCHANGED <<lib, request, df, mu, S, cleaned, perf>>

\* Line 45: cleaned = ef.clean_weights(); the library raises AttributeError
\* when the object holds no weights yet.
CleanWeights(c) ==
    /\ pc[c] = "L45"
    /\ Log(c, "clean_weights", NoArg)
    /\ IF ef[EfSlot(c)].weights # NoWeights
       THEN /\ cleaned' = [cleaned EXCEPT ![c] = clean_weights(ef[EfSlot(c)])]
            /\ pc' = [pc EXCEPT ![c] = "L46"]
            /\ UNCHANGED <<error, response>>
       ELSE /\ Raise(c, "AttributeError")
            /\ UNCHANGED cleaned
    /\ UNCHANGED <<lib, request, df, mu, S, ef, perf>>

\* Line 46: perf = ef.portfolio_performance(risk_free_rate=request.risk_free_rate);
\* the library raises ValueError when the object holds no weights.
Evaluate(c) ==
    /\ pc[c] = "L46"
    /\ Log(c, "portfolio_performance", request[c].risk_free_rate)
    /\ IF ef[EfSlot(c)].weights # NoWeights
       THEN /\ perf' = [perf EXCEPT ![c] =
                           portfolio_performance(ef[EfSlot(c)], request[c].risk_free_rate,
                                                 lib.reuse_rf)]
            /\ pc' = [pc EXCEPT ![c] = "L48"]
            /\ UNCHANGED <<error, response>>
       ELSE /\ Raise(c, "ValueError")
            /\ UNCHANGED perf
    /\ UNCHANGED <<lib, request, df, mu, S, ef, cleaned>>

\* Lines 48 - 53: the response dict.
MakeResponse(cl, pf) ==
    [weights |-> cl, expected_return |-> pf[1], volatility |-> pf[2],
     sharpe_ratio |-> pf[3]]

Return(c) ==
    /\ pc[c] = "L48"
    /\ response' = [response EXCEPT ![c] = MakeResponse(cleaned[c], perf[c])]
    /\ pc' = [pc EXCEPT ![c] = "returned"]
    /\ UNCHANGED <<lib, request, df, mu, S, ef, cleaned, perf, error, calls>>

\* The call is over: its frame and everything it created are dropped, and
\* the server is ready for the next request.
Finish(c) ==
    /\ pc[c] \in {"returned", "raised"}
    /\ pc' = [pc EXCEPT ![c] = "idle"]
    /\ request' = [request EXCEPT ![c] = NoRequest]
    /\ df' = [df EXCEPT ![c] = NoFrame]
    /\ mu' = [mu EXCEPT ![c] = NoSeries]
    /\ S' = [S EXCEPT ![c] = NoMatrix]
    /\ cleaned' = [cleaned EXCEPT ![c] = NoDict]
    /\ perf' = [perf EXCEPT ![c] = NoPerf]
    /\ response' = [response EXCEPT ![c] = NoResponse]
    /\ error' = [error EXCEPT ![c] = NoError]
    /\ calls' = [calls EXCEPT ![c] = <<>>]
    /\ ef' = [ef EXCEPT ![EfSlot(c)] = NoEf]
    /\ UNCHANGED lib

Step(c) ==
    \/ BuildFrame(c)
    \/ Estimate(c)
    \/ Solve(c)
    \/ CleanWeights(c)
    \/ Evaluate(c)
    \/ Return(c)
    \/ Finish(c)

\* One call at a time, any payload.
Next == Receive(1) \/ Step(1)

Spec == Init /\ [][Next]_vars

\* NumCalls calls interleaved statement by statement.
NextConc == \E c \in Calls : ReceiveConc(c) \/ Step(c)

SpecConc == Init /\ [][NextConc]_vars

\* ------------------------------------------- the cleaner on any solver result
\* Entries a solver result may hold, in units of 10^-6.
ProbeValues ==
    {0 - 1, 0, 1, 40, 100, 110, 250, 1000, 333330, 333333, 333334, 333340,
     499950, 500000, 999000, 999750, 999890, 999900, 999960, 1000000, 1000001}

\* Solver tolerance on sum w = 1, in units of 10^-6.
SolverTol == WeightUnit \div 10^6

\* The weight vectors a convex solver may return for some covariance matrix:
\* every vector of the feasible region, up to the solver's tolerance.
FeasibleWeights(n) ==
    {w \in [1..n -> ProbeValues] : Abs(SumSeq(w) - WeightUnit) <= SolverTol}

\* The handler at line 45 of a min_volatility call on n assets whose solver
\* returned w.
AtLine45(n, w) ==
    LET req == [symbols |-> [i \in 1..n |-> i],
                returns |-> [i \in 1..n |-> [mu |-> 6, var |-> 1]],
                objective |-> "min_volatility", risk_free_rate |-> RequestDefaultRf]
        frame == DataFrameT(req.returns, req.symbols)
    IN  /\ request = [c \in Calls |-> IF c = 1 THEN req ELSE NoRequest]
        /\ df = [c \in Calls |-> IF c = 1 THEN frame ELSE NoFrame]
        /\ mu = [c \in Calls |-> IF c = 1 THEN mean_historical_return(frame) ELSE NoSeries]
        /\ S = [c \in Calls |-> IF c = 1 THEN ledoit_wolf(frame) ELSE NoMatrix]
        /\ ef = [c \in Calls |->
                    IF c = EfSlot(1)
                    THEN [EfficientFrontier(mean_historical_return(frame), ledoit_wolf(frame))
                             EXCEPT !.weights = w]
                    ELSE NoEf]
        /\ calls = [c \in Calls |->
                       IF c = 1
                       THEN <<[fn |-> "mean_historical_return", rf |-> NoArg],
                              [fn |-> "ledoit_wolf", rf |-> NoArg],
                              [fn |-> "min_volatility", rf |-> NoArg]>>
                       ELSE <<>>]

InitClean ==
    /\ lib \in LibReleases
    /\ pc = [c \in Calls |-> IF c = 1 THEN "L45" ELSE "idle"]
    /\ \E n \in 1..MaxAssets : \E w \in FeasibleWeights(n) : AtLine45(n, w)
    /\ cleaned = [c \in Calls |-> NoDict]
    /\ perf = [c \in Calls |-> NoPerf]
    /\ response = [c \in Calls |-> NoResponse]
    /\ error = [c \in Calls |-> NoError]

NextClean == CleanWeights(1) \/ Evaluate(1) \/ Return(1)

SpecClean == InitClean /\ [][NextClean]_vars

\* ================================================================ claims
RecognizedObjectives == {"max_sharpe", "min_volatility"}

Distinct(s) == \A i, j \in 1..Len(s) : s[i] = s[j] => i = j

\* A request the design calls valid: one identifier per row, no identifier
\* twice, at least one row, a recognized objective.
ValidRequest(req) ==
    /\ Len(req.returns) >= 1
    /\ Len(req.symbols) = Len(req.returns)
    /\ Distinct(req.symbols)
    /\ req.objective \in RecognizedObjectives

Fns(c) == [i \in 1..Len(calls[c]) |-> calls[c][i].fn]

Called(c, fn) == \E i \in 1..Len(calls[c]) : calls[c][i].fn = fn

\* The weight of each position of `tickers` in the mapping d.
AsArray(d, tickers) == [i \in 1..Len(tickers) |-> d[tickers[i]]]

\* Tolerance of the design on sum w = 1: 1e-6.
SumTolerance == WeightUnit \div 10^6

\* C1: a call whose objective is neither max_sharpe nor min_volatility never
\* runs a solver under a substituted objective and never returns a result.
C1_UnrecognizedObjectiveRejected ==
    \A c \in Calls :
        (request[c] # NoRequest /\ request[c].objective \notin RecognizedObjectives)
            => /\ ~Called(c, "max_sharpe")
               /\ ~Called(c, "min_volatility")
               /\ pc[c] # "returned"

\* C2: for a valid request, the returned weights sum to 1 within 1e-6 and
\* each lies in [0, 1].
C2_WeightsSumToOneInBounds ==
    \A c \in Calls :
        (pc[c] = "returned" /\ ValidRequest(request[c]))
            => LET w == response[c].weights
               IN  /\ Abs(SumOver(w, DOMAIN w) - WeightUnit) <= SumTolerance
                   /\ \A t \in DOMAIN w : 0 <= w[t] /\ w[t] <= WeightUnit

\* C3: a returned call on a valid request ran Estimator, Solver, Cleaner, Evaluator in that
\* order, and its performance figures are those of the returned (cleaned)
\* weight vector.
C3_PerformanceOfCleanedWeights ==
    \A c \in Calls :
        (pc[c] = "returned" /\ ValidRequest(request[c]))
            => LET e == ef[EfSlot(c)]
                   rf == performance_rf(e, request[c].risk_free_rate, lib.reuse_rf)
                   w == AsArray(response[c].weights, e.tickers)
               IN  /\ Len(calls[c]) = 5
                   /\ SubSeq(Fns(c), 1, 2) = <<"mean_historical_return", "ledoit_wolf">>
                   /\ Fns(c)[3] \in {"max_sharpe", "min_volatility"}
                   /\ SubSeq(Fns(c), 4, 5) = <<"clean_weights", "portfolio_performance">>
                   /\ <<response[c].expected_return, response[c].volatility,
                        response[c].sharpe_ratio>>
                          = performance_of(w, e.expected_returns, e.cov_matrix, rf)

\* C4: a call with an invalid request does no numerical work: no estimation,
\* solver, cleaning or evaluation call is made for it.
C4_InvalidInputNoNumericalWork ==
    \A c \in Calls :
        (request[c] # NoRequest /\ ~ValidRequest(request[c])) => calls[c] = <<>>

\* C5: a call ends either with a complete response and no error, or with one
\* error and no response at all; no response exists before the call ends.
CompleteResponse(r) ==
    /\ DOMAIN r.weights # {}
    /\ r.expected_return # NoArg
    /\ r.volatility # <<>>
    /\ r.sharpe_ratio.kind # "none"

C5_ResultOrErrorNeverPartial ==
    \A c \in Calls :
        /\ pc[c] = "returned"
              => /\ error[c] = NoError
                 /\ CompleteResponse(response[c])
                 /\ Len(calls[c]) = 5
        /\ pc[c] = "raised" => error[c] # NoError /\ response[c] = NoResponse
        /\ pc[c] \notin {"returned", "raised"}
              => error[c] = NoError /\ response[c] = NoResponse

\* C5 witness: a call ended by the solver's exception, after estimation ran.
C5_Witness ==
    \E c \in Calls :
        /\ pc[c] = "raised"
        /\ Called(c, "max_sharpe")
        /\ ef[EfSlot(c)].weights = NoWeights

\* C6: on a valid request the evaluation never yields an infinite or NaN Sharpe ratio: a zero
\* volatility ends the call at the evaluation instead.
C6_ZeroVolatilityRaises ==
    \A c \in Calls :
        (pc[c] \in {"L48", "returned"} /\ ValidRequest(request[c]))
            => perf[c][3].kind = "finite"

\* C7: cleaning a vector whose entries are zero or above the cutoff and
\* already at the rounding precision returns it unchanged, and cleaning a
\* cleaned vector again returns it unchanged.
IsClean(w) ==
    \A i \in 1..Len(w) :
        /\ w[i] = 0 \/ Abs(w[i]) > cutoff
        /\ w[i] % RoundStep = 0

C7_CleanIdempotent ==
    \A c \in Calls :
        pc[c] \in {"L46", "L48", "returned"}
            => LET e == ef[EfSlot(c)]
                   once == AsArray(cleaned[c], e.tickers)
               IN  /\ IsClean(e.weights) => once = e.weights
                   /\ clean_array(once) = once

\* C7 witness: a clean vector with a weight just above the cutoff and more
\* than one non-zero entry has been cleaned.
C7_Witness ==
    \E c \in Calls :
        /\ pc[c] = "L46"
        /\ IsClean(ef[EfSlot(c)].weights)
        /\ \E i, j \in 1..Len(ef[EfSlot(c)].weights) :
              /\ i # j
              /\ ef[EfSlot(c)].weights[i] = 110
              /\ ef[EfSlot(c)].weights[j] > 0

\* C8: the cleaned vector has every weight below the cutoff at zero and,
\* the rest being renormalized and the rounding residual added back, sums
\* to 1 within tolerance.
C8_CleanerRenormalizes ==
    \A c \in Calls :
        (pc[c] \in {"L46", "L48", "returned"} /\ Distinct(ef[EfSlot(c)].tickers))
            => LET raw == ef[EfSlot(c)].weights
                   out == AsArray(cleaned[c], ef[EfSlot(c)].tickers)
               IN  /\ \A i \in 1..Len(raw) : Abs(raw[i]) < cutoff => out[i] = 0
                   /\ Abs(SumSeq(out) - WeightUnit) <= SumTolerance

\* C9: whatever the interleaving, a call's response or error is the one its
\* own request produces when run alone.
RunAlone(req) ==
    LET frame == DataFrameT(req.returns, req.symbols)
        e0 == EfficientFrontier(mean_historical_return(frame), ledoit_wolf(frame))
        rf == EffectiveRf(SolverRfArg(req))
        solved == req.objective = "min_volatility" \/ max_sharpe_ok(e0, rf)
        e1 == IF req.objective = "min_volatility"
              THEN [e0 EXCEPT !.weights = min_volatility(e0)]
              ELSE [e0 EXCEPT !.weights = max_sharpe(e0, rf), !.risk_free_rate = rf]
    IN  IF ~DataFrameOk(req.returns, req.symbols)
        THEN [error |-> "ValueError", response |-> NoResponse]
        ELSE IF ~solved
        THEN [error |-> "ValueError", response |-> NoResponse]
        ELSE [error |-> NoError,
              response |-> MakeResponse(clean_weights(e1),
                              portfolio_performance(e1, req.risk_free_rate, lib.reuse_rf))]

C9_CallsIsolated ==
    \A c \in Calls :
        pc[c] \in {"returned", "raised"}
            => /\ response[c] = RunAlone(request[c]).response
               /\ error[c] = RunAlone(request[c]).error

\* C9 witness: a call has returned while another call, on a different
\* request, sat between its solver step and its evaluation.
C9_Witness ==
    \E c, d \in Calls :
        /\ c # d
        /\ pc[c] = "returned"
        /\ pc[d] \in {"L45", "L46"}
        /\ request[c] # request[d]
        /\ Len(calls[c]) = 5

\* C10: in a returned call that ran max_sharpe, the solver and the
\* evaluation were both given the request's risk-free rate.
C10_SameRiskFreeRate ==
    \A c \in Calls :
        pc[c] = "returned"
            => \A i \in 1..Len(calls[c]) :
                  /\ calls[c][i].fn = "max_sharpe"
                        => EffectiveRf(calls[c][i].rf) = request[c].risk_free_rate
                  /\ (calls[c][i].fn = "portfolio_performance" /\ Called(c, "max_sharpe"))
                        => calls[c][i].rf = request[c].risk_free_rate

====
